---- MODULE Spec2Model ----
(***************************************************************************)
(* The spot-price relay scripts for Shelly devices:                        *)
(*   src/unnamed/part_000                       price, "above-or-equal"    *)
(*   src/spot-price-relay/spot-price-relay.js   price, "above"             *)
(*   src/spot-quick-code-relay/...              quick codes                *)
(* Each script is a single-threaded set of callbacks driven by one-shot    *)
(* timers and by the completion of Shelly.call requests.  One step of the  *)
(* model is one callback run to completion.  print/printb (and the timer   *)
(* that flushes the print buffer) only write the log and are left out, as  *)
(* is the callback of NotifyEvent, which only prints.  The delay of a      *)
(* timer and the latency of a request are not measured: any pending timer  *)
(* may fire and any pending request may complete next.                     *)
(***************************************************************************)
EXTENDS Integers, Sequences, FiniteSets, Bags, TLC

VARIABLES
    script,                  \* which of the three scripts runs on the device
    relayConfigs,            \* const relayConfigs (never written)
    maxConsecutiveFailures,  \* const maxConsecutiveFailures (never written)
    downloadErrorCount,      \* let downloadErrorCount
    timers,                  \* number of pending one-shot fetch timers
    httpPending,             \* bag of HTTP.GET requests awaiting their callback
    switchPending,           \* bag of Switch.set calls awaiting their callback
    calls,                   \* the Shelly.call / Timer.set calls made by the last callback, in order
    evaluated                \* the last direct evaluation of the relay rules: its price and results

vars == <<script, relayConfigs, maxConsecutiveFailures, downloadErrorCount,
          timers, httpPending, switchPending, calls, evaluated>>

----------------------------------------------------------------------------
(* Bounds of the model *)

MaxErrorCount == 7
MaxTimers == 5
MaxHttpPending == 2
MaxSwitchPending == 4

----------------------------------------------------------------------------
(* The scripts *)

Part000 == "part_000"
SpotPriceRelay == "spot-price-relay"
SpotQuickCodeRelay == "spot-quick-code-relay"

PriceScripts == {Part000, SpotPriceRelay}
Scripts == PriceScripts \cup {SpotQuickCodeRelay}

----------------------------------------------------------------------------
(* Values *)

\* A price in EUR/kWh: w whole euros (floor) and f units of 1e-8 above them.
P(w, f) == [isNull |-> FALSE, w |-> w, f |-> f]
Null == [isNull |-> TRUE, w |-> 0, f |-> 0]

\* a < b on two non-null prices
PriceLess(a, b) == a.w < b.w \/ (a.w = b.w /\ a.f < b.f)

\* A quick code as a JavaScript value: the number 142 and the string "142"
\* are different values for === and !==.
Num(n) == [type |-> "number", v |-> n]
Str(n) == [type |-> "string", v |-> n]
Undefined == [type |-> "undefined", v |-> 0]

StrictEquals(a, b) == a.type = b.type /\ a.v = b.v

\* no rule has been evaluated on its own
NotEvaluated == [done |-> FALSE, currentPrice |-> Null, targetState |-> <<>>]

\* HTTP requests
JustNow == [api |-> "JustNow", quickCode |-> Undefined]
QuickCode(quickCode) == [api |-> "QuickCode", quickCode |-> quickCode]
NoRequest == [api |-> "", quickCode |-> Undefined]

\* Calls a callback makes
SwitchSet(i, on) ==
    [method |-> "Switch.set", id |-> i, on |-> on, title |-> "", arg |-> 0, req |-> NoRequest]
Notify(title, n) ==
    [method |-> "NotifyEvent", id |-> -1, on |-> FALSE, title |-> title, arg |-> n, req |-> NoRequest]
TimerSet(delay) ==
    [method |-> "Timer.set", id |-> -1, on |-> FALSE, title |-> "", arg |-> delay, req |-> NoRequest]
HttpGet(req) ==
    [method |-> "HTTP.GET", id |-> -1, on |-> FALSE, title |-> "", arg |-> 0, req |-> req]

\* Titles of the notifications (a with diaeresis written as a)
TitleStartup == "Laite kaynnistyy"
TitleRepeatedFailure == "Spot-hintojen lataus epaonnistui"
TitleStopped == "Spot-hintojen lataus pysaytetty"
TitleRecovered == "Spot-hinta toimii taas"
TitleRelayError == "Releen hallintavirhe"

Issued(cs, m) == SelectSeq(cs, LAMBDA c : c.method = m)

RECURSIVE SeqToBag(_)
SeqToBag(s) == IF s = <<>> THEN EmptyBag ELSE SetToBag({Head(s)}) (+) SeqToBag(Tail(s))

----------------------------------------------------------------------------
(* Configuration *)

shippedMaxConsecutiveFailures == 5
retryDelaySeconds == 60
SafePrice == P(999, 0)

shippedRelayConfigs(s) ==
    IF s = Part000 THEN
        << [limitPrice |-> P(0, 2000000), onCondition |-> "below"],
           [limitPrice |-> P(0, 2000000), onCondition |-> "above-or-equal"] >>
    ELSE IF s = SpotPriceRelay THEN
        << [limitPrice |-> P(0, 1999999), onCondition |-> "below"],
           [limitPrice |-> P(0, 2000000), onCondition |-> "above"] >>
    ELSE
        << [quickCode |-> Num(142), isInverse |-> FALSE],
           [quickCode |-> Num(142), isInverse |-> TRUE] >>

----------------------------------------------------------------------------
(* Inputs *)

\* Date.now() in ms: on a quarter-hour boundary, 10 ms before one, in the
\* middle of a quarter, in a later hour.
Times == {0, 899990, 1234567, 3600000 + 2699990}

Prices == {P(-1, 99500000), P(0, 1500000), P(0, 1999999), P(0, 2000000),
           P(0, 2500000), P(1000, 0), Null}

\* Bodies of a response: not JSON, JSON without the field (or a falsy
\* value), JSON with PriceWithTax (a number or null).
Bodies == {[kind |-> "unparsable", PriceWithTax |-> Null],
           [kind |-> "missing", PriceWithTax |-> Null]}
          \cup {[kind |-> "data", PriceWithTax |-> p] : p \in Prices}

NoBody == [kind |-> "missing", PriceWithTax |-> Null]

Responses == {[errorCode |-> -1, code |-> 0, body |-> NoBody]}
             \cup {[errorCode |-> 0, code |-> c, body |-> NoBody] : c \in {400, 429, 500}}
             \cup {[errorCode |-> 0, code |-> 200, body |-> b] : b \in Bodies}

----------------------------------------------------------------------------
(* The price scripts *)

\* calculateRelayState with <= for < in the "below" rule
calculateRelayStateInclusiveBelow(config, currentPrice) ==
    IF currentPrice = Null THEN FALSE
    ELSE IF config.onCondition = "below" THEN ~PriceLess(config.limitPrice, currentPrice)
    ELSE IF config.onCondition = "above-or-equal" THEN ~PriceLess(currentPrice, config.limitPrice)
    ELSE FALSE

\* part_000: "below" and "above-or-equal"
calculateRelayState(config, currentPrice) ==
    IF currentPrice = Null THEN FALSE
    ELSE IF config.onCondition = "below" THEN PriceLess(currentPrice, config.limitPrice)
    ELSE IF config.onCondition = "above-or-equal" THEN ~PriceLess(currentPrice, config.limitPrice)
    ELSE FALSE

\* spot-price-relay.js: "below" and "above"
calculateRelayStateAbove(config, currentPrice) ==
    IF currentPrice = Null THEN FALSE
    ELSE IF config.onCondition = "below" THEN PriceLess(currentPrice, config.limitPrice)
    ELSE IF config.onCondition = "above" THEN PriceLess(config.limitPrice, currentPrice)
    ELSE FALSE

\* controlRelays(currentPrice): one Switch.set per relay, in index order;
\* nothing at all for a null price.
controlRelays(s, cfgs, currentPrice) ==
    IF currentPrice = Null THEN <<>>
    ELSE [i \in 1..Len(cfgs) |->
            SwitchSet(i - 1, IF s = Part000
                             THEN calculateRelayState(cfgs[i], currentPrice)
                             ELSE calculateRelayStateAbove(cfgs[i], currentPrice))]

\* part_000 and the quick-code script: next quarter-hour plus 2 seconds
scheduleNextDownload(currentMs) ==
    LET fifteenMinutesMs == 15 * 60 * 1000
        msSinceHour == currentMs % (60 * 60 * 1000)
        delayMs == fifteenMinutesMs - (msSinceHour % fifteenMinutesMs) + 2000
    IN  <<TimerSet(delayMs)>>

\* spot-price-relay.js: next quarter-hour, no buffer
scheduleNextDownloadNoBuffer(currentMs) ==
    LET fifteenMinutesMs == 15 * 60 * 1000
        msSinceHour == currentMs % (60 * 60 * 1000)
        delayMs == fifteenMinutesMs - (msSinceHour % fifteenMinutesMs)
    IN  <<TimerSet(delayMs)>>

----------------------------------------------------------------------------
(* The quick-code script *)

\* controlRelays(quickCode, isEnabled), relays i..length-1 (0-based i-1)
RECURSIVE controlRelaysFrom(_, _, _, _)
controlRelaysFrom(cfgs, i, quickCode, isEnabled) ==
    IF i > Len(cfgs) THEN <<>>
    ELSE LET config == cfgs[i]
             targetState == IF config.isInverse THEN ~isEnabled ELSE isEnabled
         IN  (IF ~StrictEquals(config.quickCode, quickCode)
              THEN <<>>
              ELSE <<SwitchSet(i - 1, targetState)>>)
             \o controlRelaysFrom(cfgs, i + 1, quickCode, isEnabled)

\* controlRelays with its loop starting one relay late
controlRelaysQuickCodeFromSecond(cfgs, quickCode, isEnabled) ==
    controlRelaysFrom(cfgs, 2, quickCode, isEnabled)

controlRelaysQuickCode(cfgs, quickCode, isEnabled) ==
    controlRelaysFrom(cfgs, 1, quickCode, isEnabled)

\* setSafeMode(): controlRelays(config.quickCode, false) for every config
RECURSIVE setSafeModeFrom(_, _)
setSafeModeFrom(cfgs, i) ==
    IF i > Len(cfgs) THEN <<>>
    ELSE controlRelaysQuickCode(cfgs, cfgs[i].quickCode, FALSE) \o setSafeModeFrom(cfgs, i + 1)

\* Object.keys(relayMap): the distinct quick codes as strings; keys that
\* are integers come in ascending order.
RECURSIVE Ascending(_)
Ascending(S) ==
    IF S = {} THEN <<>>
    ELSE LET m == CHOOSE x \in S : \A y \in S : x <= y
         IN  <<m>> \o Ascending(S \ {m})

ObjectKeys(cfgs) ==
    LET ks == Ascending({cfgs[i].quickCode.v : i \in 1..Len(cfgs)})
    IN  [j \in 1..Len(ks) |-> Str(ks[j])]

\* downloadQuickCodeStatuses(): one HTTP.GET per distinct code, then the
\* next aligned timer, without waiting for any response.
downloadQuickCodeStatuses(cfgs, currentMs) ==
    LET quickCodes == ObjectKeys(cfgs)
    IN  IF Len(quickCodes) = 0 THEN <<>>
        ELSE [j \in 1..Len(quickCodes) |-> HttpGet(QuickCode(quickCodes[j]))]
             \o scheduleNextDownload(currentMs)

----------------------------------------------------------------------------
(* The failure tracker, the same text in the three scripts *)

\* setSafeMode assuming a low price (0.0 for 999.0)
setSafeModeLowPrice(s, cfgs) ==
    IF s = SpotQuickCodeRelay THEN setSafeModeFrom(cfgs, 1)
    ELSE controlRelays(s, cfgs, P(0, 0))

setSafeMode(s, cfgs) ==
    IF s = SpotQuickCodeRelay THEN setSafeModeFrom(cfgs, 1)
    ELSE controlRelays(s, cfgs, SafePrice)

\* scheduleRetry stopping one failure late (> for >=)
scheduleRetryOffByOne(count, max) ==
    IF count > max THEN <<>>
    ELSE <<TimerSet(retryDelaySeconds * 1000 * (IF count < 5 THEN count ELSE 5))>>

\* scheduleRetry taking the counter as it was before the increment
scheduleRetryBeforeIncrement(count, max) ==
    IF count >= max THEN <<>>
    ELSE <<TimerSet(retryDelaySeconds * 1000 * (IF count - 1 < 5 THEN count - 1 ELSE 5))>>

\* if (downloadErrorCount >= maxConsecutiveFailures) return; ... Timer.set(retryDelay, ...)
scheduleRetry(count, max) ==
    IF count >= max THEN <<>>
    ELSE <<TimerSet(retryDelaySeconds * 1000 * (IF count < 5 THEN count ELSE 5))>>

\* notifyFailure level-triggered (>= 3 for === 3)
notifyFailureLevelTriggered(s, cfgs, count, max) ==
    IF count = max THEN <<Notify(TitleStopped, max)>> \o setSafeMode(s, cfgs)
    ELSE IF count >= 3 THEN <<Notify(TitleRepeatedFailure, 0)>>
    ELSE <<>>

\* if (downloadErrorCount === 3) ... else if (downloadErrorCount === maxConsecutiveFailures) ...
notifyFailure(s, cfgs, count, max) ==
    IF count = 3 THEN <<Notify(TitleRepeatedFailure, 0)>>
    ELSE IF count = max THEN <<Notify(TitleStopped, max)>> \o setSafeMode(s, cfgs)
    ELSE <<>>

handleDownloadError(s, cfgs, max, count) ==
    LET incremented == count + 1
    IN  [count |-> incremented,
         calls |-> notifyFailure(s, cfgs, incremented, max) \o scheduleRetry(incremented, max)]

----------------------------------------------------------------------------
(* The HTTP.GET callbacks *)

\* notifyRecovered with > 3 for >= 3
notifyRecoveredAboveThree(previousErrorCount) ==
    IF previousErrorCount > 3
    THEN <<Notify(TitleRecovered, previousErrorCount)>>
    ELSE <<>>

\* if (previousErrorCount >= 3) sendNotification("... toimii taas", ...)
notifyRecovered(previousErrorCount) ==
    IF previousErrorCount >= 3
    THEN <<Notify(TitleRecovered, previousErrorCount)>>
    ELSE <<>>

\* spotPriceCallback without the return after the missing-field error: the
\* callback goes on to schedule the next aligned download as well
spotPriceCallbackNoReturn(s, cfgs, max, count, response, currentMs) ==
    IF response.errorCode # 0 THEN handleDownloadError(s, cfgs, max, count)
    ELSE IF response.code # 200 THEN handleDownloadError(s, cfgs, max, count)
    ELSE IF response.body.kind = "unparsable" THEN handleDownloadError(s, cfgs, max, count)
    ELSE IF response.body.kind = "missing"
         THEN [count |-> 0,
               calls |-> handleDownloadError(s, cfgs, max, count).calls
                         \o (IF s = Part000 THEN scheduleNextDownload(currentMs)
                             ELSE scheduleNextDownloadNoBuffer(currentMs))]
    ELSE LET previousErrorCount == count
             newPrice == response.body.PriceWithTax
         IN  [count |-> 0,
              calls |-> notifyRecovered(previousErrorCount)
                        \o controlRelays(s, cfgs, newPrice)
                        \o (IF s = Part000 THEN scheduleNextDownload(currentMs)
                            ELSE scheduleNextDownloadNoBuffer(currentMs))]

\* spotPriceCallback with a catch block that only logs
spotPriceCallbackCatchLogs(s, cfgs, max, count, response, currentMs) ==
    IF response.errorCode # 0 THEN handleDownloadError(s, cfgs, max, count)
    ELSE IF response.code # 200 THEN handleDownloadError(s, cfgs, max, count)
    ELSE IF response.body.kind = "unparsable" THEN [count |-> count, calls |-> <<>>]
    ELSE IF response.body.kind = "missing" THEN handleDownloadError(s, cfgs, max, count)
    ELSE LET previousErrorCount == count
             newPrice == response.body.PriceWithTax
         IN  [count |-> 0,
              calls |-> notifyRecovered(previousErrorCount)
                        \o controlRelays(s, cfgs, newPrice)
                        \o (IF s = Part000 THEN scheduleNextDownload(currentMs)
                            ELSE scheduleNextDownloadNoBuffer(currentMs))]

\* the callback of HTTP.GET in downloadCurrentSpotPrice()
spotPriceCallback(s, cfgs, max, count, response, currentMs) ==
    IF response.errorCode # 0 THEN handleDownloadError(s, cfgs, max, count)
    ELSE IF response.code # 200 THEN handleDownloadError(s, cfgs, max, count)
    ELSE IF response.body.kind = "unparsable" THEN handleDownloadError(s, cfgs, max, count)
    ELSE IF response.body.kind = "missing" THEN handleDownloadError(s, cfgs, max, count)
    ELSE LET previousErrorCount == count
             newPrice == response.body.PriceWithTax
         IN  [count |-> 0,
              calls |-> notifyRecovered(previousErrorCount)
                        \o controlRelays(s, cfgs, newPrice)
                        \o (IF s = Part000 THEN scheduleNextDownload(currentMs)
                            ELSE scheduleNextDownloadNoBuffer(currentMs))]

\* quickCodeCallback taking status 400 for an error
quickCodeCallbackOnly200(s, cfgs, max, count, quickCode, response) ==
    IF response.errorCode # 0 THEN handleDownloadError(s, cfgs, max, count)
    ELSE IF response.code # 200
         THEN handleDownloadError(s, cfgs, max, count)
    ELSE [count |-> 0,
          calls |-> controlRelaysQuickCode(cfgs, quickCode, response.code = 200)]

\* the callback of HTTP.GET in downloadQuickCodeStatus(quickCode)
quickCodeCallback(s, cfgs, max, count, quickCode, response) ==
    IF response.errorCode # 0 THEN handleDownloadError(s, cfgs, max, count)
    ELSE IF response.code # 200 /\ response.code # 400
         THEN handleDownloadError(s, cfgs, max, count)
    ELSE [count |-> 0,
          calls |-> controlRelaysQuickCode(cfgs, quickCode, response.code = 200)]

----------------------------------------------------------------------------
(* The state machine *)

Requests(cs) == LET gets == Issued(cs, "HTTP.GET") IN SeqToBag([j \in 1..Len(gets) |-> gets[j].req])

\* The calls of one callback take effect: timers are armed, requests go out.
Effect(result, firedTimers, doneHttp, doneSwitch) ==
    /\ downloadErrorCount' = result.count
    /\ calls' = result.calls
    /\ timers' = (timers - firedTimers) + Len(Issued(result.calls, "Timer.set"))
    /\ httpPending' = (httpPending (-) doneHttp) (+) Requests(result.calls)
    /\ switchPending' = (switchPending (-) doneSwitch) (+) SeqToBag(Issued(result.calls, "Switch.set"))
    /\ result.count <= MaxErrorCount
    /\ timers' <= MaxTimers
    /\ BagCardinality(httpPending') <= MaxHttpPending
    /\ BagCardinality(switchPending') <= MaxSwitchPending
    /\ UNCHANGED <<script, relayConfigs, maxConsecutiveFailures, evaluated>>

\* The script has run to its last line: the start-up notification is out
\* and the first fetch is under way.
Startup(s, cfgs, currentMs) ==
    <<Notify(TitleStartup, 0)>>
    \o (IF s = SpotQuickCodeRelay
        THEN downloadQuickCodeStatuses(cfgs, currentMs)
        ELSE <<HttpGet(JustNow)>>)

Init ==
    /\ script \in Scripts
    /\ relayConfigs = shippedRelayConfigs(script)
    /\ maxConsecutiveFailures = shippedMaxConsecutiveFailures
    /\ downloadErrorCount = 0
    /\ \E currentMs \in Times :
         calls = Startup(script, relayConfigs, IF script = SpotQuickCodeRelay THEN currentMs ELSE 0)
    /\ timers = Len(Issued(calls, "Timer.set"))
    /\ httpPending = Requests(calls)
    /\ switchPending = EmptyBag
    /\ evaluated = NotEvaluated

\* A fetch timer of a price script fires: downloadCurrentSpotPrice()
TimerDownloadCurrentSpotPrice ==
    /\ script \in PriceScripts
    /\ timers > 0
    /\ Effect([count |-> downloadErrorCount, calls |-> <<HttpGet(JustNow)>>],
              1, EmptyBag, EmptyBag)

\* A fetch timer of the quick-code script fires: downloadQuickCodeStatuses()
TimerDownloadQuickCodeStatuses ==
    /\ script = SpotQuickCodeRelay
    /\ timers > 0
    /\ \E currentMs \in Times :
         Effect([count |-> downloadErrorCount,
                 calls |-> downloadQuickCodeStatuses(relayConfigs, currentMs)],
                1, EmptyBag, EmptyBag)

\* HTTP.GET of a price script completes
SpotPriceResponse ==
    /\ script \in PriceScripts
    /\ \E req \in BagToSet(httpPending), response \in Responses, currentMs \in Times :
         Effect(spotPriceCallback(script, relayConfigs, maxConsecutiveFailures,
                                  downloadErrorCount, response, currentMs),
                0, SetToBag({req}), EmptyBag)

\* HTTP.GET of the quick-code script completes (only the status is read)
QuickCodeResponse ==
    /\ script = SpotQuickCodeRelay
    /\ \E req \in BagToSet(httpPending), response \in Responses :
         /\ response.body = NoBody
         /\ Effect(quickCodeCallback(script, relayConfigs, maxConsecutiveFailures,
                                     downloadErrorCount, req.quickCode, response),
                   0, SetToBag({req}), EmptyBag)

\* switchSetCallback naming the relay by its position counted from 1
switchSetCallbackOneBased(errorCode, relayIndex) ==
    IF errorCode # 0 THEN <<Notify(TitleRelayError, relayIndex + 1)>> ELSE <<>>

\* the callback of Switch.set in controlRelays
switchSetCallback(errorCode, relayIndex) ==
    IF errorCode # 0 THEN <<Notify(TitleRelayError, relayIndex)>> ELSE <<>>

SwitchSetResponse ==
    \E call \in BagToSet(switchPending), errorCode \in {0, -1} :
        Effect([count |-> downloadErrorCount, calls |-> switchSetCallback(errorCode, call.id)],
               0, EmptyBag, SetToBag({call}))

Next ==
    \/ TimerDownloadCurrentSpotPrice
    \/ TimerDownloadQuickCodeStatuses
    \/ SpotPriceResponse
    \/ QuickCodeResponse
    \/ SwitchSetResponse

Spec == Init /\ [][Next]_vars

----------------------------------------------------------------------------
(* The rule evaluation on its own: any two rules on relays 0 and 1, any    *)
(* price.  Evaluate applies calculateRelayState to every rule and          *)
(* controlRelays to the price; EnterSafeMode applies setSafeMode.          *)

Conditions == {"below", "above", "above-or-equal"}
Thresholds == {P(0, 1999999), P(0, 2000000), P(1000, 0)}
Rules == [limitPrice : Thresholds, onCondition : Conditions]

InitEval ==
    /\ script \in PriceScripts
    /\ relayConfigs \in [1..2 -> Rules]
    /\ maxConsecutiveFailures = shippedMaxConsecutiveFailures
    /\ downloadErrorCount = 0
    /\ calls = <<>>
    /\ timers = 0
    /\ httpPending = EmptyBag
    /\ switchPending = EmptyBag
    /\ evaluated = NotEvaluated

Evaluate ==
    /\ \E currentPrice \in Prices :
         /\ evaluated' = [done |-> TRUE,
                          currentPrice |-> currentPrice,
                          targetState |-> [i \in 1..Len(relayConfigs) |->
                              IF script = Part000
                              THEN calculateRelayState(relayConfigs[i], currentPrice)
                              ELSE calculateRelayStateAbove(relayConfigs[i], currentPrice)]]
         /\ calls' = controlRelays(script, relayConfigs, currentPrice)
    /\ UNCHANGED <<script, relayConfigs, maxConsecutiveFailures, downloadErrorCount,
                   timers, httpPending, switchPending>>

EnterSafeMode ==
    /\ evaluated' = NotEvaluated
    /\ calls' = setSafeMode(script, relayConfigs)
    /\ UNCHANGED <<script, relayConfigs, maxConsecutiveFailures, downloadErrorCount,
                   timers, httpPending, switchPending>>

NextEval ==
    \/ Evaluate
    \/ EnterSafeMode

SpecEval == InitEval /\ [][NextEval]_vars

\* Any configured maximum from 1 to the shipped 5
ConfiguredMaxima == 1..shippedMaxConsecutiveFailures

InitMax ==
    /\ script \in Scripts
    /\ relayConfigs = shippedRelayConfigs(script)
    /\ maxConsecutiveFailures \in ConfiguredMaxima
    /\ downloadErrorCount = 0
    /\ \E currentMs \in Times :
         calls = Startup(script, relayConfigs, IF script = SpotQuickCodeRelay THEN currentMs ELSE 0)
    /\ timers = Len(Issued(calls, "Timer.set"))
    /\ httpPending = Requests(calls)
    /\ switchPending = EmptyBag
    /\ evaluated = NotEvaluated

SpecMax == InitMax /\ [][Next]_vars

\* A pending timer fires when its delay has passed, and HTTP.GET calls its
\* callback at the latest when its timeout of 10 s has passed.
SpecFair ==
    /\ Spec
    /\ WF_vars(TimerDownloadCurrentSpotPrice)
    /\ WF_vars(SpotPriceResponse)

TypeOK ==
    /\ script \in Scripts
    /\ downloadErrorCount \in 0..MaxErrorCount
    /\ timers \in 0..MaxTimers

----------------------------------------------------------------------------
(* Vocabulary of the properties *)

Min(a, b) == IF a < b THEN a ELSE b

\* the step is the completion of an HTTP.GET
HttpCompleted == BagCardinality(httpPending') < BagCardinality(httpPending)

\* the step is a fetch failure: only handleDownloadError increments the counter
FetchFailed == downloadErrorCount' = downloadErrorCount + 1

\* the step is a fetch accepted as successful
FetchSucceeded == HttpCompleted /\ ~FetchFailed

Sent(cs, title) == SelectSeq(cs, LAMBDA c : c.method = "NotifyEvent" /\ c.title = title)

FailureNotifications(cs) ==
    SelectSeq(cs, LAMBDA c : c.method = "NotifyEvent"
                             /\ c.title \in {TitleRepeatedFailure, TitleStopped})

Contains(cs, c) == \E k \in 1..Len(cs) : cs[k] = c

\* the state a price rule takes in safe mode: OFF for "below", ON otherwise
SafeTarget(config) == config.onCondition \in {"above", "above-or-equal"}

----------------------------------------------------------------------------
C1_StoppedIsAbsorbing_Step ==
    script \in PriceScripts =>
      /\ (FetchFailed /\ downloadErrorCount' = maxConsecutiveFailures) =>
            /\ \A i \in 1..Len(relayConfigs) :
                  Contains(calls', SwitchSet(i - 1, SafeTarget(relayConfigs[i])))
            /\ Issued(calls', "Timer.set") = <<>>
            /\ timers' = 0
      /\ downloadErrorCount = maxConsecutiveFailures =>
            /\ downloadErrorCount' = maxConsecutiveFailures
            /\ Issued(calls', "HTTP.GET") = <<>>
            /\ timers' = 0
            /\ httpPending' = EmptyBag

(* C1: price scripts.  The failure that makes downloadErrorCount equal to  *)
(* maxConsecutiveFailures issues Switch.set for every relay with its safe  *)
(* target and sets no fetch timer; from then on no fetch is started and    *)
(* the counter stays at the maximum.                                       *)
C1_StoppedIsAbsorbing == [][C1_StoppedIsAbsorbing_Step]_vars

C1_Witness ==
    /\ script \in PriceScripts
    /\ downloadErrorCount = maxConsecutiveFailures
    /\ Sent(calls, TitleStopped) # <<>>
    /\ Contains(calls, SwitchSet(0, FALSE))
    /\ Contains(calls, SwitchSet(1, TRUE))

C2_QuickCodeStops_Step ==
    script = SpotQuickCodeRelay =>
      /\ (FetchFailed /\ downloadErrorCount' = maxConsecutiveFailures) =>
            /\ \A i \in 1..Len(relayConfigs) : Contains(calls', SwitchSet(i - 1, FALSE))
            /\ timers' = 0
      /\ downloadErrorCount >= maxConsecutiveFailures =>
            Issued(calls', "HTTP.GET") = <<>>

(* C2: quick-code script.  After the failure that makes the counter equal  *)
(* to the maximum every relay has been commanded to its safe state, no     *)
(* fetch timer is pending and downloadQuickCodeStatuses never runs again.  *)
C2_QuickCodeStops == [][C2_QuickCodeStops_Step]_vars

(* C3: price scripts.  Pending fetch timers plus HTTP.GET calls awaiting   *)
(* their callback number at most one.                                      *)
C3_OneFetchCycle ==
    script \in PriceScripts => timers + BagCardinality(httpPending) <= 1

\* a retry timer is pending after an earlier cycle had succeeded
C3_Witness ==
    /\ script \in PriceScripts
    /\ timers = 1
    /\ downloadErrorCount \in 1..(maxConsecutiveFailures - 1)
    /\ switchPending # EmptyBag

(* C4: quick-code script with its single quick code.  At most one fetch    *)
(* timer is pending and at most one fetch is in flight.                    *)
C4_QuickCodeOneTimer ==
    script = SpotQuickCodeRelay =>
        /\ timers <= 1
        /\ BagCardinality(httpPending) <= 1

C5_EdgeTriggeredNotifications_Step ==
    /\ downloadErrorCount' \in {0, downloadErrorCount, downloadErrorCount + 1}
     /\ FailureNotifications(calls') =
          IF FetchFailed /\ downloadErrorCount' = 3
              THEN <<Notify(TitleRepeatedFailure, 0)>>
          ELSE IF FetchFailed /\ downloadErrorCount' = 5
              THEN <<Notify(TitleStopped, 5)>>
          ELSE <<>>

(* C5: all scripts.  A failure sends the "repeated failure" notification   *)
(* exactly when it makes the counter 3, the "stopping retries" one exactly *)
(* when it makes the counter 5, once each, and no other step sends either; *)
(* the counter only moves by +1 or to 0, so a run meets each count once.   *)
C5_EdgeTriggeredNotifications == [][C5_EdgeTriggeredNotifications_Step]_vars

\* the fourth failure in a row has just passed without a notification
C5_Witness ==
    /\ downloadErrorCount = 4
    /\ Issued(calls, "Timer.set") = <<TimerSet(240000)>>
    /\ Issued(calls, "NotifyEvent") = <<>>

C6_RecoveredNotification_Step ==
    (script \in PriceScripts /\ FetchSucceeded) =>
      /\ downloadErrorCount' = 0
      /\ Sent(calls', TitleRecovered) =
           IF downloadErrorCount >= 3
           THEN <<Notify(TitleRecovered, downloadErrorCount)>>
           ELSE <<>>

(* C6: price scripts.  A successful fetch with previous count c sets the   *)
(* counter to 0 and sends "recovered" carrying c if and only if c >= 3.    *)
C6_RecoveredNotification == [][C6_RecoveredNotification_Step]_vars

C6_Witness ==
    /\ script \in PriceScripts
    /\ downloadErrorCount = 0
    /\ Contains(calls, Notify(TitleRecovered, 4))

C7_QuickCodeRecoveredNotification_Step ==
    (script = SpotQuickCodeRelay /\ FetchSucceeded) =>
      Sent(calls', TitleRecovered) =
           IF downloadErrorCount >= 3
           THEN <<Notify(TitleRecovered, downloadErrorCount)>>
           ELSE <<>>

(* C7: quick-code script.  A successful fetch (status 200 or 400) after a  *)
(* previous count c >= 3 sends "recovered" carrying c; after c < 3 none.   *)
C7_QuickCodeRecoveredNotification == [][C7_QuickCodeRecoveredNotification_Step]_vars

C8_RetryAfterEveryFailure_Step ==
    FetchFailed =>
      Issued(calls', "Timer.set")
          = <<TimerSet(retryDelaySeconds * 1000 * Min(downloadErrorCount', 5))>>

(* C8, as stated: after the k-th consecutive failure a retry is scheduled  *)
(* with delay 60 s x min(k, 5), for k = 1, 2, 3, 4, 5, 6, ...              *)
C8_RetryAfterEveryFailure == [][C8_RetryAfterEveryFailure_Step]_vars

C8_RetryBelowMaximum_Step ==
    FetchFailed =>
      Issued(calls', "Timer.set") =
          IF downloadErrorCount' < maxConsecutiveFailures
          THEN <<TimerSet(60000 * Min(downloadErrorCount', 5))>>
          ELSE <<>>

(* C8, amended: after the k-th consecutive failure with k below            *)
(* maxConsecutiveFailures the retry is scheduled with delay                *)
(* 60 s x min(k, 5), k being the counter after its increment (60, 120,     *)
(* 180, 240 s); from k = maxConsecutiveFailures on no retry is scheduled.  *)
C8_RetryBelowMaximum == [][C8_RetryBelowMaximum_Step]_vars

C8_Witness ==
    /\ downloadErrorCount = 2
    /\ Issued(calls, "Timer.set") = <<TimerSet(120000)>>

(* C9: all scripts.  0 <= downloadErrorCount <= maxConsecutiveFailures.    *)
C9_CounterWithinMaximum ==
    /\ 0 <= downloadErrorCount
    /\ downloadErrorCount <= maxConsecutiveFailures

C10_FetchAfterActuation_Step ==
    script \in PriceScripts =>
      /\ \A j, k \in 1..Len(calls') :
            (calls'[j].method = "Switch.set" /\ calls'[k].method = "Timer.set") => j < k
      /\ Issued(calls', "HTTP.GET") # <<>> => switchPending = EmptyBag

(* C10: price scripts.  Within a cycle the Switch.set calls are issued     *)
(* before the timer of the next cycle is set, and the next HTTP.GET is     *)
(* never issued while a Switch.set call still awaits its callback.         *)
C10_FetchAfterActuation == [][C10_FetchAfterActuation_Step]_vars

----------------------------------------------------------------------------
(* Rule evaluation *)

\* the comparison a rule stands for, on a price that is present
Reference(config, p) ==
    CASE config.onCondition = "below" -> PriceLess(p, config.limitPrice)
      [] config.onCondition = "above" -> PriceLess(config.limitPrice, p)
      [] config.onCondition = "above-or-equal" ->
            p = config.limitPrice \/ PriceLess(config.limitPrice, p)

\* the conditions a script's calculateRelayState has a branch for
Implemented(s) == IF s = Part000 THEN {"below", "above-or-equal"} ELSE {"below", "above"}

(* C11, as stated: for every rule, threshold and price calculateRelayState *)
(* gives p < t for "below", p > t for "above", p >= t for                  *)
(* "above-or-equal" and false for an absent price, each rule on its own.   *)
C11_EqualsReference ==
    evaluated.done =>
        \A i \in 1..Len(relayConfigs) :
            evaluated.targetState[i] =
                (evaluated.currentPrice # Null
                 /\ Reference(relayConfigs[i], evaluated.currentPrice))

(* C11, amended: each script's calculateRelayState gives the reference     *)
(* result for the conditions that script implements ("below" and           *)
(* "above-or-equal" in part_000, "below" and "above" in                    *)
(* spot-price-relay.js) and false for any other condition and for an       *)
(* absent price, each rule on its own.                                     *)
C11_EqualsReferenceWhereImplemented ==
    evaluated.done =>
        \A i \in 1..Len(relayConfigs) :
            evaluated.targetState[i] =
                (/\ evaluated.currentPrice # Null
                 /\ relayConfigs[i].onCondition \in Implemented(script)
                 /\ Reference(relayConfigs[i], evaluated.currentPrice))

\* 0.015 with below(0.02) on relay 0 and above-or-equal(0.02) on relay 1
C11_Witness ==
    /\ script = Part000
    /\ relayConfigs = shippedRelayConfigs(Part000)
    /\ evaluated.done
    /\ evaluated.currentPrice = P(0, 1500000)
    /\ evaluated.targetState = <<TRUE, FALSE>>

----------------------------------------------------------------------------
(* The quick-code fetch *)

\* the step is the HTTP.GET callback of the quick-code script for request
\* req, delivering response
QuickCodeDelivered(req, response) ==
    /\ script = SpotQuickCodeRelay
    /\ response.body = NoBody
    /\ Effect(quickCodeCallback(script, relayConfigs, maxConsecutiveFailures,
                                downloadErrorCount, req.quickCode, response),
              0, SetToBag({req}), EmptyBag)

C12_QuickCodeClassification_Step ==
    \A req \in BagToSet(httpPending), response \in Responses :
        QuickCodeDelivered(req, response) =>
            IF response.errorCode = 0 /\ response.code \in {200, 400}
            THEN LET flag == (response.code = 200)
                 IN  /\ downloadErrorCount' = 0
                     /\ \A k \in 1..Len(calls') :
                           calls'[k].method = "Switch.set" =>
                               calls'[k].on = (IF relayConfigs[calls'[k].id + 1].isInverse
                                               THEN ~flag ELSE flag)
            ELSE /\ downloadErrorCount' = downloadErrorCount + 1
                 /\ downloadErrorCount' # maxConsecutiveFailures =>
                       Issued(calls', "Switch.set") = <<>>

CommandsFor(cfgs, v, f) ==
    LET named == SelectSeq([i \in 1..Len(cfgs) |-> i], LAMBDA i : cfgs[i].quickCode.v = v)
    IN  [k \in 1..Len(named) |->
            SwitchSet(named[k] - 1, IF cfgs[named[k]].isInverse THEN ~f ELSE f)]

C13_QuickCodeCommands_Step ==
    \A req \in BagToSet(httpPending), response \in Responses :
        (/\ QuickCodeDelivered(req, response)
         /\ response.errorCode = 0
         /\ response.code \in {200, 400}) =>
            Issued(calls', "Switch.set")
                = CommandsFor(relayConfigs, req.quickCode.v, response.code = 200)

(* C13: quick-code script.  When the fetch for quick code c succeeds with  *)
(* flag f, that callback issues Switch.set for exactly the relays whose    *)
(* rule references c, with f for a direct rule and not f for an inverse    *)
(* one.                                                                    *)
C13_QuickCodeCommands == [][C13_QuickCodeCommands_Step]_vars

----------------------------------------------------------------------------
(* Safe mode *)

\* the step is the failure that makes the counter equal to the maximum
SafeModeEntered == FetchFailed /\ downloadErrorCount' = maxConsecutiveFailures

C14_QuickCodeSafeModeAllOff_Step ==
    (script = SpotQuickCodeRelay /\ SafeModeEntered) =>
        /\ \A i \in 1..Len(relayConfigs) : Contains(calls', SwitchSet(i - 1, FALSE))
        /\ \A k \in 1..Len(calls') : calls'[k].method = "Switch.set" => ~calls'[k].on

(* C14, as stated: quick-code script.  When safe mode is entered every     *)
(* relay, direct or inverse, is commanded to false.                        *)
C14_QuickCodeSafeModeAllOff == [][C14_QuickCodeSafeModeAllOff_Step]_vars

C14_QuickCodeSafeModeFlagFalse_Step ==
    (script = SpotQuickCodeRelay /\ SafeModeEntered) =>
        /\ \A i \in 1..Len(relayConfigs) :
              Contains(calls', SwitchSet(i - 1, relayConfigs[i].isInverse))
        /\ \A k \in 1..Len(calls') :
              calls'[k].method = "Switch.set" =>
                  calls'[k].on = relayConfigs[calls'[k].id + 1].isInverse

(* C14, amended: quick-code script.  When safe mode is entered every       *)
(* relay is commanded as for a flag that is false: OFF if its rule is      *)
(* direct, ON if its rule is inverse.                                      *)
C14_QuickCodeSafeModeFlagFalse == [][C14_QuickCodeSafeModeFlagFalse_Step]_vars

C14_Witness ==
    /\ script = SpotQuickCodeRelay
    /\ downloadErrorCount = maxConsecutiveFailures
    /\ Sent(calls, TitleStopped) # <<>>
    /\ Contains(calls, SwitchSet(0, FALSE))
    /\ Contains(calls, SwitchSet(1, TRUE))

C15_PriceSafeModeAnyThreshold_Step ==
    EnterSafeMode =>
        \A i \in 1..Len(relayConfigs) :
            Contains(calls', SwitchSet(i - 1, SafeTarget(relayConfigs[i])))

(* C15, as stated: price scripts.  When safe mode is entered every relay   *)
(* with a "below" rule is commanded OFF and every relay with an "above" or *)
(* "above-or-equal" rule is commanded ON, whatever its threshold.          *)
C15_PriceSafeModeAnyThreshold == [][C15_PriceSafeModeAnyThreshold_Step]_vars

C15_PriceSafeModeBelowSentinel_Step ==
    EnterSafeMode =>
        \A i \in 1..Len(relayConfigs) :
            (/\ relayConfigs[i].onCondition \in Implemented(script)
             /\ PriceLess(relayConfigs[i].limitPrice, P(999, 0))) =>
                /\ Contains(calls', SwitchSet(i - 1, SafeTarget(relayConfigs[i])))
                /\ ~Contains(calls', SwitchSet(i - 1, ~SafeTarget(relayConfigs[i])))

(* C15, amended: price scripts.  When safe mode is entered every relay     *)
(* with a "below" rule is commanded OFF and every relay with the script's  *)
(* own upper rule ("above-or-equal" in part_000, "above" in                *)
(* spot-price-relay.js) is commanded ON, for every configured threshold    *)
(* below the sentinel price 999.0.                                         *)
C15_PriceSafeModeBelowSentinel == [][C15_PriceSafeModeBelowSentinel_Step]_vars

\* safe mode with below(0.01999999) on relay 0 and above(0.02) on relay 1
C15_Witness ==
    /\ script = SpotPriceRelay
    /\ relayConfigs = shippedRelayConfigs(SpotPriceRelay)
    /\ ~evaluated.done
    /\ calls = <<SwitchSet(0, FALSE), SwitchSet(1, TRUE)>>

----------------------------------------------------------------------------
(* Scheduling *)

\* the step is the HTTP.GET callback of a price script delivering response
\* at time currentMs
SpotPriceDelivered(req, response, currentMs) ==
    /\ script \in PriceScripts
    /\ Effect(spotPriceCallback(script, relayConfigs, maxConsecutiveFailures,
                                downloadErrorCount, response, currentMs),
              0, SetToBag({req}), EmptyBag)

\* the step is a fetch timer of the quick-code script firing at time currentMs
QuickCodeTimerFired(currentMs) ==
    /\ script = SpotQuickCodeRelay
    /\ timers > 0
    /\ Effect([count |-> downloadErrorCount,
               calls |-> downloadQuickCodeStatuses(relayConfigs, currentMs)],
              1, EmptyBag, EmptyBag)

Accepted(response) ==
    response.errorCode = 0 /\ response.code = 200 /\ response.body.kind = "data"

\* the step runs scheduleNextDownload() at time currentMs
ScheduledAt(currentMs) ==
    \/ QuickCodeTimerFired(currentMs)
    \/ \E req \in BagToSet(httpPending), response \in Responses :
          Accepted(response) /\ SpotPriceDelivered(req, response, currentMs)

C16_AlignedDelay_Step ==
    \A currentMs \in Times :
        ScheduledAt(currentMs) =>
            LET period == 900000
                m == currentMs % 3600000
                set == Issued(calls', "Timer.set")
            IN  /\ Len(set) = 1
                /\ set[1].arg - (period - (m % period)) \in 1..9999
                /\ m % period = period - 10 => set[1].arg < period

(* C16: all scripts.  scheduleNextDownload at offset m into the hour sets  *)
(* one timer with delay P - (m mod P) + buffer, P = 900000 ms, the buffer  *)
(* positive and of a few seconds; 10 ms before a boundary the delay is     *)
(* buffer + 10 ms, not a full period.                                      *)
C16_AlignedDelay == [][C16_AlignedDelay_Step]_vars

----------------------------------------------------------------------------
(* Actuation failures *)

\* the step is the Switch.set callback of call, completing with errorCode
SwitchSetDelivered(call, errorCode) ==
    Effect([count |-> downloadErrorCount, calls |-> switchSetCallback(errorCode, call.id)],
           0, EmptyBag, SetToBag({call}))

C17_ActuationFailure_Step ==
    /\ \A call \in BagToSet(switchPending) :
          SwitchSetDelivered(call, -1) =>
              /\ downloadErrorCount' = downloadErrorCount
              /\ timers' = timers
              /\ httpPending' = httpPending
              /\ switchPending' = switchPending (-) SetToBag({call})
              /\ Issued(calls', "NotifyEvent") = <<Notify(TitleRelayError, call.id)>>
    /\ Issued(calls', "Switch.set") # <<>> =>
          \A i \in 1..Len(relayConfigs) :
              \E k \in 1..Len(calls') :
                  calls'[k].method = "Switch.set" /\ calls'[k].id = i - 1

(* C17: all scripts.  A Switch.set callback with a non-zero error code     *)
(* leaves downloadErrorCount and the pending fetch timers and requests     *)
(* unchanged, cancels no other pending Switch.set, and sends exactly one   *)
(* notification, naming the failed relay; a callback that issues           *)
(* Switch.set at all issues it for every relay before any of these         *)
(* callbacks can run.                                                      *)
C17_ActuationFailure == [][C17_ActuationFailure_Step]_vars

\* relay 1 failed while the command of relay 0 and the next timer are pending
C17_Witness ==
    /\ downloadErrorCount = 0
    /\ timers = 1
    /\ calls = <<Notify(TitleRelayError, 1)>>
    /\ \E call \in BagToSet(switchPending) : call.id = 0

----------------------------------------------------------------------------
(* Absent price *)

C18_NullPriceAllOff_Step ==
    \A req \in BagToSet(httpPending), response \in Responses, currentMs \in Times :
        (/\ SpotPriceDelivered(req, response, currentMs)
         /\ Accepted(response)
         /\ response.body.PriceWithTax = Null) =>
            \A i \in 1..Len(relayConfigs) : Contains(calls', SwitchSet(i - 1, FALSE))

(* C18: price scripts.  When a fetch is accepted as successful with        *)
(* PriceWithTax null, every relay is commanded OFF in that callback.       *)
C18_NullPriceAllOff == [][C18_NullPriceAllOff_Step]_vars

----------------------------------------------------------------------------
(* Any configured maximum *)

C19_StopAtAnyMaximum_Step ==
    SafeModeEntered =>
        /\ Sent(calls', TitleStopped) # <<>>
        /\ \A i \in 1..Len(relayConfigs) :
              \E k \in 1..Len(calls') :
                  calls'[k].method = "Switch.set" /\ calls'[k].id = i - 1
        /\ Issued(calls', "Timer.set") = <<>>

(* C19: all scripts, maxConsecutiveFailures from 1 to 5.  The failure that *)
(* makes downloadErrorCount equal to maxConsecutiveFailures sends the      *)
(* "stopping retries" notification and commands every relay, and sets no   *)
(* retry timer.                                                            *)
C19_StopAtAnyMaximum == [][C19_StopAtAnyMaximum_Step]_vars

----------------------------------------------------------------------------
(* Progress of the price scripts *)

C20_TimerAfterEveryFetch_Step ==
    (/\ script \in PriceScripts
     /\ HttpCompleted
     /\ downloadErrorCount' < maxConsecutiveFailures) =>
        /\ timers' = 1
        /\ Len(Issued(calls', "Timer.set")) = 1

(* C20: price scripts.  After every completed fetch callback that leaves   *)
(* downloadErrorCount below maxConsecutiveFailures exactly one fetch timer *)
(* is pending; and, timers firing and requests completing, a fetch in      *)
(* flight leads to the next fetch in flight unless the counter reaches the *)
(* maximum.                                                                *)
C20_NeverStalls ==
    /\ [][C20_TimerAfterEveryFetch_Step]_vars
    /\ (script \in PriceScripts /\ httpPending # EmptyBag)
          ~> (timers = 1 \/ downloadErrorCount = maxConsecutiveFailures)
    /\ (script \in PriceScripts /\ timers = 1) ~> (httpPending # EmptyBag)

\* the retry after a malformed or failed fourth fetch is pending
C20_Witness ==
    /\ script \in PriceScripts
    /\ downloadErrorCount = 4
    /\ timers = 1
    /\ httpPending = EmptyBag
    /\ switchPending = EmptyBag

----------------------------------------------------------------------------
(* The quick-code script configured with two distinct quick codes *)

\* relayConfigs naming two distinct quick codes, one relay each
TwoQuickCodes == {142, 143}

twoCodeRelayConfigs ==
    {<< [quickCode |-> Num(ab[1]), isInverse |-> FALSE],
        [quickCode |-> Num(ab[2]), isInverse |-> TRUE] >> :
        ab \in {cd \in TwoQuickCodes \X TwoQuickCodes : cd[1] # cd[2]}}

\* The service fails for the quick code of relay 0 and answers for the
\* quick code of relay 1.
FailingCode(cfgs) == cfgs[1].quickCode.v
SucceedingCode(cfgs) == cfgs[2].quickCode.v

\* what the callback takes for a failure, and what it takes for an answer
FailureResponses ==
    {r \in Responses : r.body = NoBody /\ (r.errorCode # 0 \/ r.code \notin {200, 400})}
AnswerResponses ==
    {r \in Responses : r.body = NoBody /\ r.errorCode = 0 /\ r.code \in {200, 400}}

\* Every failed fetch below the maximum arms a retry timer next to the
\* aligned one, so the pending timers grow without limit.  Timers beyond
\* MaxTimers are not counted: from MaxTimers on, timers reads "MaxTimers
\* or more", and each of them still fires in its turn.
EffectManyTimers(result, firedTimers, doneHttp, doneSwitch) ==
    /\ downloadErrorCount' = result.count
    /\ calls' = result.calls
    /\ timers' = Min(MaxTimers, (timers - firedTimers) + Len(Issued(result.calls, "Timer.set")))
    /\ httpPending' = (httpPending (-) doneHttp) (+) Requests(result.calls)
    /\ switchPending' = (switchPending (-) doneSwitch) (+) SeqToBag(Issued(result.calls, "Switch.set"))
    /\ result.count <= MaxErrorCount
    /\ BagCardinality(httpPending') <= MaxHttpPending
    /\ BagCardinality(switchPending') <= MaxSwitchPending
    /\ UNCHANGED <<script, relayConfigs, maxConsecutiveFailures, evaluated>>

InitTwoCodes ==
    /\ script = SpotQuickCodeRelay
    /\ relayConfigs \in twoCodeRelayConfigs
    /\ maxConsecutiveFailures \in ConfiguredMaxima
    /\ downloadErrorCount = 0
    /\ \E currentMs \in Times : calls = Startup(script, relayConfigs, currentMs)
    /\ timers = Len(Issued(calls, "Timer.set"))
    /\ httpPending = Requests(calls)
    /\ switchPending = EmptyBag
    /\ evaluated = NotEvaluated

\* A fetch timer fires: downloadQuickCodeStatuses(), one GET per code
TwoCodesTimer ==
    /\ timers > 0
    /\ \E currentMs \in Times :
         EffectManyTimers([count |-> downloadErrorCount,
                           calls |-> downloadQuickCodeStatuses(relayConfigs, currentMs)],
                          1, EmptyBag, EmptyBag)

\* The GET for the failing code completes: transport error, 429 or 500
FailingCodeResponse ==
    \E req \in BagToSet(httpPending), response \in FailureResponses :
        /\ req.quickCode.v = FailingCode(relayConfigs)
        /\ EffectManyTimers(quickCodeCallback(script, relayConfigs, maxConsecutiveFailures,
                                              downloadErrorCount, req.quickCode, response),
                            0, SetToBag({req}), EmptyBag)

\* The GET for the other code completes: status 200 or 400
SucceedingCodeResponse ==
    \E req \in BagToSet(httpPending), response \in AnswerResponses :
        /\ req.quickCode.v = SucceedingCode(relayConfigs)
        /\ EffectManyTimers(quickCodeCallback(script, relayConfigs, maxConsecutiveFailures,
                                              downloadErrorCount, req.quickCode, response),
                            0, SetToBag({req}), EmptyBag)

\* Switch.set (issued by setSafeMode) completes
TwoCodesSwitchSetResponse ==
    \E call \in BagToSet(switchPending), errorCode \in {0, -1} :
        EffectManyTimers([count |-> downloadErrorCount,
                          calls |-> switchSetCallback(errorCode, call.id)],
                         0, EmptyBag, SetToBag({call}))

NextTwoCodes ==
    \/ TwoCodesTimer
    \/ FailingCodeResponse
    \/ SucceedingCodeResponse
    \/ TwoCodesSwitchSetResponse

\* Timers fire when their delay has passed and every Shelly.call calls its
\* callback, HTTP.GET at the latest after its timeout of 10 s.
SpecTwoCodes ==
    /\ InitTwoCodes
    /\ [][NextTwoCodes]_vars
    /\ WF_vars(TwoCodesTimer)
    /\ WF_vars(FailingCodeResponse)
    /\ WF_vars(SucceedingCodeResponse)
    /\ WF_vars(TwoCodesSwitchSetResponse)

(* C21: quick-code script with two distinct quick codes, the maximum at 3  *)
(* or more.  When every fetch for one code fails and every fetch for the   *)
(* other code succeeds, downloadErrorCount eventually reaches 3 and the    *)
(* callback that brings it there sends the "repeated failure"              *)
(* notification.                                                           *)
C21_PersistentFailureNotified ==
    (maxConsecutiveFailures >= 3) =>
        <>(/\ downloadErrorCount = 3
           /\ Contains(calls, Notify(TitleRepeatedFailure, 0)))

====
